---- MODULE Spec2Model ----
(***************************************************************************)
(* Model of the SECAR weather-report updater (update-weather.js and its    *)
(* two sibling variants).                                                  *)
(*                                                                         *)
(* Text is modelled as a sequence of tokens (Seq(STRING)).  A token is a   *)
(* word, a fixed phrase of the script, an HTML tag, or one character where *)
(* the code looks at characters (digits and "%" of a percentage).  The     *)
(* blanks between tokens are not modelled.                                 *)
(***************************************************************************)
EXTENDS Integers, Sequences, FiniteSets, TLC

VARIABLES
    variant,      \* which of the three script files runs
    month,        \* new Date().getMonth() of the run, 0..11
    pc,           \* position of updateHtmlFile / fetchWeatherConditions
    idx,          \* index in Object.entries(WEATHER_OFFICES) of the loop
    conditions,   \* the conditions object: jurisdiction -> text
    failed,       \* history: jurisdictions whose alert fetch failed
    data,         \* the answer to the alert request of the latest iteration
    src,          \* next tropical endpoint getTropicalOutlook will request
    requested,    \* history: tropical endpoints requested so far, in order
    answer,       \* history: the answer of the endpoint requested last
    tropical,     \* conditions.tropical (see NoResult / NullResult)
    origin,       \* history: the source whose code built `tropical`
    report,       \* reportHtml as returned by generateReport
    template,     \* htmlTemplate as read by updateHtmlFile
    file,         \* content of index.html on disk
    exitCode,     \* process exit status, -1 while running
    paIn,         \* SpecAlerts: the arguments of one processAlerts call
    paOut,        \* SpecAlerts: what that call returned
    runs          \* SpecRerun: which run of the script on index.html this is

vars == <<variant, month, pc, idx, conditions, failed, data, src, requested, answer,
          tropical, origin, report, template, file, exitCode, paIn, paOut, runs>>

(***************************************************************************)
(* Bounds of the model.                                                    *)
(***************************************************************************)
MaxAlerts == 2     \* longest alert list handed to processAlerts
MaxTime == 1       \* clock readings and expiry stamps range over 0..MaxTime
MaxAreas == 2      \* longest "areas" list of the structured tropical product
MaxItems == 2      \* most <item>s of the feed
MaxStorms == 2     \* most entries of activeStorms
MaxRuns == 2       \* runs of the script on the same index.html

(***************************************************************************)
(* Token-sequence helpers.                                                 *)
(***************************************************************************)
RECURSIVE Concat(_)
Concat(ss) == IF ss = <<>> THEN <<>> ELSE Head(ss) \o Concat(Tail(ss))

\* Array.prototype.join(', ') on a list of texts
RECURSIVE Join(_)
Join(ss) ==
    IF ss = <<>> THEN <<>>
    ELSE IF Len(ss) = 1 THEN ss[1]
    ELSE ss[1] \o <<",">> \o Join(Tail(ss))

Count(text, tok) == Cardinality({i \in DOMAIN text : text[i] = tok})

\* String.prototype.includes, on whole words
Includes(text, word) == \E i \in DOMAIN text : text[i] = word

\* the subsequence of s at the (increasing) positions in idxs
RECURSIVE Pick(_, _, _)
Pick(s, idxs, i) ==
    IF i > Len(s) THEN <<>>
    ELSE (IF i \in idxs THEN <<s[i]>> ELSE <<>>) \o Pick(s, idxs, i + 1)

SeqsUpTo(S, n) == UNION {[1..k -> S] : k \in 0..n}

(***************************************************************************)
(* The catalog.                                                            *)
(***************************************************************************)
WEATHER_OFFICES ==
    <<"Tennessee", "Mississippi", "Alabama", "Georgia", "Florida",
      "North Carolina", "South Carolina", "U.S. Virgin Islands">>

States == {WEATHER_OFFICES[i] : i \in DOMAIN WEATHER_OFFICES}

Variants == {"main", "nhc", "nws"}

\* today.getMonth() >= 4 && today.getMonth() <= 9
IsHotSeason(m) == m >= 4 /\ m <= 9

(***************************************************************************)
(* processAlerts and the texts it is built from.                           *)
(***************************************************************************)
getSeasonalConditionsMut(state, isHotSeason) ==
    IF isHotSeason
    THEN <<"Monitor for heat stress during outdoor activities.",
           "Stay hydrated and seek air conditioning during peak heating hours.">>
    ELSE <<>>
getSeasonalConditions(state, isHotSeason) ==
    IF isHotSeason
    THEN <<"Monitor for heat stress during outdoor activities.",
           "Stay hydrated and seek air conditioning during peak heating hours.">>
    ELSE <<"Typical seasonal weather patterns expected.",
           "Monitor for changing conditions.">>

NoHazards(state) ==
    <<"No significant weather hazards reported for", state, "at this time.">>

generateFallbackConditionsMut(state, isHotSeason) ==
    IF isHotSeason
    THEN <<"Hot and humid conditions with", "ADVISORIES",
           "for heat index values near or above 100F.">>
         \o getSeasonalConditions(state, isHotSeason)
    ELSE <<"Seasonal temperatures expected for", state, ".">>
         \o (IF state = "Florida"
             THEN <<"Mild temperatures with occasional shower activity.">>
             ELSE <<"Monitor for potential winter weather impacts and changing conditions.">>)
generateFallbackConditions(state, isHotSeason) ==
    IF isHotSeason
    THEN <<"Hot and humid conditions with", "ADVISORIES",
           "for heat index values near or above 100F.">>
         \o (CASE state = "Florida" ->
                    <<"WATCHES", "for heavy rainfall and potential flash flooding.",
                      "Scattered to numerous thunderstorms with",
                      "frequent lightning", "and locally heavy rainfall.">>
               [] state \in {"Mississippi", "Alabama"} ->
                    <<"Isolated to scattered thunderstorms possible with",
                      "frequent lightning", "and brief heavy downpours.",
                      "Monitor for heat-related illnesses.">>
               [] state \in {"Georgia", "South Carolina"} ->
                    <<"Scattered afternoon thunderstorms with",
                      "dangerous lightning", "and locally heavy rainfall.">>
               [] state \in {"Tennessee", "North Carolina"} ->
                    <<"ADVISORIES", "for scattered thunderstorms with",
                      "lightning", "and brief heavy rainfall.">>
               [] state = "U.S. Virgin Islands" ->
                    <<"ADVISORIES", "for isolated showers and thunderstorms with",
                      "dangerous lightning", ".">>
               [] OTHER -> <<>>)
    ELSE <<"Seasonal temperatures expected for", state, ".">>
         \o (IF state \in {"Florida", "U.S. Virgin Islands"}
             THEN <<"Mild temperatures with occasional shower activity.">>
             ELSE <<"Monitor for potential winter weather impacts and changing conditions.">>)

(* An alert of the payload.  props = FALSE: the entry has no `properties`  *)
(* object; hasEvent = FALSE: properties.event is missing.                  *)
Alert(sev, ev, exp) ==
    [props |-> TRUE, severity |-> sev, hasEvent |-> TRUE, event |-> ev, expires |-> exp]

NoEventAlert(exp) ==
    [props |-> TRUE, severity |-> "Minor", hasEvent |-> FALSE, event |-> <<>>, expires |-> exp]

MalformedAlert ==
    [props |-> FALSE, severity |-> "Unknown", hasEvent |-> FALSE, event |-> <<>>, expires |-> 0]

\* new Date(alert.properties.expires) > new Date(), the clock read at `now`
IsActiveMut(alert, now) == alert.expires >= now
IsActive(alert, now) == alert.expires > now

\* alerts.filter(...): alert i is judged against the clock reading clock[i]
ActiveIdx(alerts, clock) == {i \in DOMAIN alerts : IsActive(alerts[i], clock[i])}

IsWarning(a) == a.severity \in {"Severe", "Extreme"} \/ Includes(a.event, "Warning")
IsWatchMut(a) == Includes(a.event, "Watch") \/ a.severity = "Extreme"
IsWatch(a) == Includes(a.event, "Watch")
IsAdvisory(a) == a.severity = "Moderate" \/ Includes(a.event, "Advisory")

\* the sentence of one group: events of the group, comma joined, and the label
GroupSentence(alerts, group, prefix, label) ==
    IF group = {} THEN <<>>
    ELSE prefix
         \o Join([k \in 1..Cardinality(group) |-> Pick(alerts, group, 1)[k].event])
         \o <<label, "in effect.">>

\* a TypeError: an entry without properties, or an active one without event
AlertsThrow(alerts, clock) ==
    \/ \E i \in DOMAIN alerts : ~alerts[i].props
    \/ \E i \in ActiveIdx(alerts, clock) : ~alerts[i].hasEvent

ProcessAlertsTextMut(state, alerts, isHotSeason, clock) ==
    LET active == ActiveIdx(alerts, clock)
        warnings == {i \in active : IsWarning(alerts[i])}
        watches == {i \in active \ warnings : IsWatch(alerts[i])}
        advisories == {i \in active \ (warnings \cup watches) : IsAdvisory(alerts[i])}
        condition ==
            GroupSentence(alerts, warnings, <<"Active">>, "WARNINGS")
            \o GroupSentence(alerts, watches, <<>>, "WATCHES")
            \o GroupSentence(alerts, advisories, <<>>, "ADVISORIES")
            \o getSeasonalConditions(state, isHotSeason)
    IN  IF condition = <<>> THEN NoHazards(state) ELSE condition
\* processAlerts on a payload it does not throw on
ProcessAlertsText(state, alerts, isHotSeason, clock) ==
    LET active == ActiveIdx(alerts, clock)
        warnings == {i \in active : IsWarning(alerts[i])}
        watches == {i \in active : IsWatch(alerts[i])}
        advisories == {i \in active : IsAdvisory(alerts[i])}
        condition ==
            GroupSentence(alerts, warnings, <<"Active">>, "WARNINGS")
            \o GroupSentence(alerts, watches, <<>>, "WATCHES")
            \o GroupSentence(alerts, advisories, <<>>, "ADVISORIES")
            \o getSeasonalConditions(state, isHotSeason)
    IN  IF condition = <<>> THEN NoHazards(state) ELSE condition

processAlerts(state, alerts, isHotSeason, clock) ==
    IF AlertsThrow(alerts, clock)
    THEN [threw |-> TRUE, text |-> <<>>]
    ELSE [threw |-> FALSE, text |-> ProcessAlertsText(state, alerts, isHotSeason, clock)]

(***************************************************************************)
(* Numbers in text: digits are one-character tokens.                       *)
(***************************************************************************)
Digits == <<"0", "1", "2", "3", "4", "5", "6", "7", "8", "9">>

IsDigit(c) == \E d \in DOMAIN Digits : Digits[d] = c

DigitVal(c) == (CHOOSE d \in DOMAIN Digits : Digits[d] = c) - 1

\* length of the run of digits of text that starts at position i
RECURSIVE RunLen(_, _)
RunLen(text, i) ==
    IF i > Len(text) \/ ~IsDigit(text[i]) THEN 0 ELSE 1 + RunLen(text, i + 1)

RECURSIVE DigitsValue(_)
DigitsValue(ds) ==
    IF ds = <<>> THEN 0
    ELSE 10 * DigitsValue(SubSeq(ds, 1, Len(ds) - 1)) + DigitVal(ds[Len(ds)])

\* parseInt: the leading digits, NaN when there are none
parseInt(text) ==
    LET n == RunLen(text, 1)
    IN  [nan |-> n = 0, val |-> DigitsValue(SubSeq(text, 1, n))]

\* `x || 0` on a number
OrZero(p) == IF p.nan THEN 0 ELSE p.val

\* String.prototype.replace(tok, ''): drops the first occurrence
RemoveFirst(text, tok) ==
    IF ~Includes(text, tok) THEN text
    ELSE LET i == CHOOSE k \in DOMAIN text :
                     text[k] = tok /\ \A j \in 1..(k - 1) : text[j] # tok
         IN  SubSeq(text, 1, i - 1) \o SubSeq(text, i + 1, Len(text))

\* template literal `${n}`
RECURSIVE FormatNat(_)
FormatNat(n) ==
    IF n < 10 THEN <<Digits[n + 1]>>
    ELSE FormatNat(n \div 10) \o <<Digits[(n % 10) + 1]>>

\* template literal `${n}%`
Percent(n) == FormatNat(n) \o <<"%">>

Max(a, b) == IF a > b THEN a ELSE b

\* String.prototype.toLowerCase on the words the scripts look for
Lower(tok) ==
    CASE tok = "Tropical" -> "tropical"
      [] tok = "Outlook" -> "outlook"
      [] tok = "Formation" -> "formation"
      [] tok = "Disturbance" -> "disturbance"
      [] tok = "Development" -> "development"
      [] tok = "Hurricane" -> "hurricane"
      [] tok = "Depression" -> "depression"
      [] tok = "Cyclone" -> "cyclone"
      [] tok = "Storm" -> "storm"
      [] tok = "Percent" -> "percent"
      [] OTHER -> tok

\* text.toLowerCase().includes(w) for one of the words ws
Mentions(text, ws) == \E i \in DOMAIN text : Lower(text[i]) \in ws

\* number of characters of the text, its tokens joined by single blanks
RECURSIVE CharLen(_)
CharLen(text) ==
    IF text = <<>> THEN 0
    ELSE IF Len(text) = 1 THEN Len(text[1])
    ELSE Len(text[1]) + 1 + CharLen(Tail(text))

\* String.prototype.substring(0, n), cut at a token boundary
RECURSIVE Substring0(_, _)
Substring0(text, n) ==
    IF text = <<>> \/ CharLen(text) <= n THEN text
    ELSE Substring0(SubSeq(text, 1, Len(text) - 1), n)

\* the values of the matches of /(\d+)\s*<unit>/g in text, in order: every
\* maximal run of digits that the unit token follows
RECURSIVE PercentValues(_, _, _)
PercentValues(text, unit, i) ==
    IF i > Len(text) THEN <<>>
    ELSE LET n == RunLen(text, i)
             starts == n > 0 /\ (i = 1 \/ ~IsDigit(text[i - 1]))
             hit == starts /\ i + n <= Len(text) /\ Lower(text[i + n]) = unit
         IN  (IF hit THEN <<[v |-> DigitsValue(SubSeq(text, i, i + n - 1)), at |-> i]>>
              ELSE <<>>)
             \o PercentValues(text, unit, i + 1)

(***************************************************************************)
(* The value of conditions.tropical.                                       *)
(***************************************************************************)
Unset == [set |-> FALSE, isNull |-> FALSE, outlook |-> <<>>, formation_chance |-> <<>>]

\* getTropicalOutlook returned null
NullResult == [set |-> TRUE, isNull |-> TRUE, outlook |-> <<>>, formation_chance |-> <<>>]

Res(outlook, chance) ==
    [set |-> TRUE, isNull |-> FALSE, outlook |-> outlook, formation_chance |-> chance]

IsHurricaneSeasonMut(m) == m >= 6 /\ m <= 10
\* month >= 5 && month <= 10
IsHurricaneSeason(m) == m >= 5 /\ m <= 10

\* the season fallback at the end of getTropicalOutlook
SeasonFallback(v, m) ==
    IF IsHurricaneSeason(m)
    THEN CASE v = "main" ->
                Res(<<"Unable to retrieve current formation probabilities from NHC APIs.",
                      "The National Hurricane Center continues to monitor the Atlantic basin.",
                      "Visit nhc.noaa.gov for the most current tropical weather outlook.">>,
                    <<"Check NHC">>)
           [] v = "nhc" ->
                Res(<<"NHC data temporarily unavailable via automated systems.",
                      "During hurricane season, formation chances can change rapidly.",
                      "Visit nhc.noaa.gov for the most current tropical weather outlook and formation probabilities.">>,
                    <<"Visit NHC">>)
           [] v = "nws" ->
                Res(<<"National Weather Service tropical data temporarily unavailable via automated systems.",
                      "During hurricane season, conditions can change rapidly and tropical development is possible.">>,
                    <<"Monitor NWS">>)
    ELSE Res(<<"Outside of peak hurricane season.",
               "No significant tropical activity expected in the Atlantic basin at this time.">>,
             <<"0", "%">>)

(***************************************************************************)
(* Payloads of the tropical endpoints.                                     *)
(***************************************************************************)
AbsentField == [kind |-> "absent", s |-> <<>>]
StrField(s) == [kind |-> "str", s |-> s]
\* a probability given as a non-zero JSON number instead of a string
NumField == [kind |-> "num", s |-> <<>>]

Area(c2, c7, hasText, text) == [c2 |-> c2, c7 |-> c7, hasText |-> hasText, text |-> text]

\* `if (field)`: a non-empty string or a non-zero number
Truthy(f) == f.kind = "num" \/ (f.kind = "str" /\ f.s # <<>>)

ChanceValueMut(f) ==
    LET p == parseInt(RemoveFirst(f.s, "%"))
    IN  IF p.nan THEN 100 ELSE p.val
\* parseInt(field.replace('%', '')) || 0
ChanceValue(f) == OrZero(parseInt(RemoveFirst(f.s, "%")))

\* .replace is not a function on a number: TypeError
AreaThrows(a) == (a.c2.kind = "num") \/ (a.c7.kind = "num")

RECURSIVE MaxChance2Day(_)
MaxChance2Day(areas) ==
    IF areas = <<>> THEN 0
    ELSE Max(IF Truthy(Head(areas).c2) THEN ChanceValue(Head(areas).c2) ELSE 0,
             MaxChance2Day(Tail(areas)))

RECURSIVE MaxChance7Day(_)
MaxChance7Day(areas) ==
    IF areas = <<>> THEN 0
    ELSE Max(IF Truthy(Head(areas).c7) THEN ChanceValue(Head(areas).c7) ELSE 0,
             MaxChance7Day(Tail(areas)))

\* what one source attempt gives getTropicalOutlook: a value to return or nothing
Nothing == [found |-> FALSE, value |-> Unset]
Found(r) == [found |-> TRUE, value |-> r]

\* update-weather.js, the areas branch of the structured source
StructuredMain(areas) ==
    LET max2 == MaxChance2Day(areas)
        max7 == MaxChance7Day(areas)
        outlookText == Concat([i \in DOMAIN areas |->
                           IF areas[i].hasText THEN areas[i].text ELSE <<>>])
    IN  Found(Res(IF outlookText # <<>> THEN outlookText
                  ELSE <<"The National Hurricane Center is monitoring the Atlantic basin for tropical development.">>,
                  IF max7 > 0 THEN Percent(max7)
                  ELSE IF max2 > 0 THEN Percent(max2) ELSE <<"0", "%">>))

\* part_000, the areas branch of the structured source
StructuredNhc(areas) ==
    LET maxChance == Max(MaxChance7Day(areas), MaxChance2Day(areas))
        disturbanceCount == Len(areas)
        outlookText == Concat([i \in DOMAIN areas |->
                           IF areas[i].hasText
                           THEN <<"Disturbance">> \o FormatNat(i) \o <<":">> \o areas[i].text
                           ELSE <<>>])
    IN  IF maxChance > 0
        THEN Found(Res(IF outlookText # <<>> THEN outlookText
                       ELSE <<"The National Hurricane Center is monitoring">>
                            \o FormatNat(disturbanceCount)
                            \o <<"disturbance(s) in the Atlantic basin for potential tropical development.">>,
                       Percent(maxChance)))
        ELSE Nothing

\* the structured source (gtwo.php?basin=atlc&fmt=json) on a parsed payload
Structured(v, resp) ==
    IF resp.kind # "areas" \/ resp.areas = <<>> THEN Nothing
    ELSE IF \E i \in DOMAIN resp.areas : AreaThrows(resp.areas[i]) THEN Nothing
    ELSE IF v = "main" THEN StructuredMain(resp.areas) ELSE StructuredNhc(resp.areas)

\* forEach(... if (num > max) { max = num; text = ... }) over matches in order
RECURSIVE FoldMax(_, _)
FoldMax(ms, acc) ==
    IF ms = <<>> THEN acc
    ELSE FoldMax(Tail(ms), IF Head(ms).v > acc.max
                           THEN [max |-> Head(ms).v, text |-> Head(ms).text]
                           ELSE acc)

StripTags(text) == SelectSeq(text, LAMBDA t : t \notin {"<p>", "</p>", "<pre>", "</pre>", "<b>", "</b>"})

HtmlWindow == 200
DescLimit == 400

\* part_000, the scraping of gtwo_atl.php.  The three patterns capture runs of
\* digits before "percent"; every capture of the first two is also (a suffix of)
\* a capture of the bare pattern, so the maximum is that of the bare pattern.
HtmlScrapeMut(html) ==
    LET ms == PercentValues(html, "percent", 1)
        withText == [k \in DOMAIN ms |->
                        [v |-> ms[k].v,
                         text |-> StripTags(SubSeq(html, Max(1, ms[k].at - HtmlWindow),
                                                   IF ms[k].at + HtmlWindow < Len(html)
                                                   THEN ms[k].at + HtmlWindow ELSE Len(html)))]]
        best == FoldMax(withText, [max |-> 0, text |-> <<>>])
    IN  IF ms # <<>>
        THEN Found(Res(IF best.text # <<>> THEN best.text
                       ELSE <<"The National Hurricane Center reports tropical development chances in the Atlantic basin.">>,
                       Percent(best.max)))
        ELSE Nothing
HtmlScrape(html) ==
    LET ms == PercentValues(html, "percent", 1)
        withText == [k \in DOMAIN ms |->
                        [v |-> ms[k].v,
                         text |-> StripTags(SubSeq(html, Max(1, ms[k].at - HtmlWindow),
                                                   IF ms[k].at + HtmlWindow < Len(html)
                                                   THEN ms[k].at + HtmlWindow ELSE Len(html)))]]
        best == FoldMax(withText, [max |-> 0, text |-> <<>>])
    IN  IF best.max > 0
        THEN Found(Res(IF best.text # <<>> THEN best.text
                       ELSE <<"The National Hurricane Center reports tropical development chances in the Atlantic basin.">>,
                       Percent(best.max)))
        ELSE Nothing

Item(title, hasDesc, desc) == [title |-> title, hasDesc |-> hasDesc, desc |-> desc]

\* the matches of one description, each with the text kept for it
DescMatches(desc, unit) ==
    LET ms == PercentValues(desc, unit, 1)
    IN  [k \in DOMAIN ms |-> [v |-> ms[k].v, text |-> Substring0(desc, DescLimit)]]

\* update-weather.js, index-at.xml: every <description> of the feed
RssMain(items) ==
    LET descs == SelectSeq(items, LAMBDA it : it.hasDesc)
        best == FoldMax(Concat([k \in DOMAIN descs |-> DescMatches(descs[k].desc, "%")]),
                        [max |-> 0, text |-> <<>>])
    IN  IF descs # <<>> /\ (best.max > 0 \/ best.text # <<>>)
        THEN Found(Res(IF best.text # <<>> THEN best.text
                       ELSE <<"The National Hurricane Center is monitoring disturbances in the Atlantic basin.">>,
                       IF best.max > 0 THEN Percent(best.max) ELSE <<"0", "%">>))
        ELSE Nothing

\* part_000, index-at.xml: the <item>s that mention tropical or outlook
RssNhc(items) ==
    LET used == SelectSeq(items, LAMBDA it :
                    Mentions(it.title \o it.desc, {"tropical", "outlook"}) /\ it.hasDesc)
        best == FoldMax(Concat([k \in DOMAIN used |-> DescMatches(used[k].desc, "percent")]),
                        [max |-> 0, text |-> <<>>])
    IN  IF best.max > 0
        THEN Found(Res(IF best.text # <<>> THEN best.text
                       ELSE <<"The National Hurricane Center is monitoring tropical development in the Atlantic basin.">>,
                       Percent(best.max)))
        ELSE Nothing

Storm(hasName, name) == [hasName |-> hasName, name |-> name]

ActiveStormsMut(storms) ==
    IF storms = <<>> THEN Nothing
    ELSE Found(Res(<<"The National Hurricane Center is currently tracking">>
                   \o FormatNat(Len(storms)) \o <<"active system(s):">>
                   \o Join([k \in DOMAIN storms |-> <<storms[k].name>>])
                   \o <<".", "Monitor official forecasts for the latest information.">>,
                   <<"Active Systems">>))
\* CurrentStorms.json with a non-empty activeStorms
ActiveStorms(storms) ==
    IF storms = <<>> THEN Nothing
    ELSE Found(Res(<<"The National Hurricane Center is currently tracking">>
                   \o FormatNat(Len(storms)) \o <<"active system(s):">>
                   \o Join([k \in DOMAIN storms |->
                              IF storms[k].hasName THEN <<storms[k].name>> ELSE <<"Unnamed">>])
                   \o <<".", "Monitor official forecasts for the latest information.">>,
                   <<"Active Systems">>))

(***************************************************************************)
(* part_001: the National Weather Service sources.  A product text is a    *)
(* sequence of lines, each a text.                                         *)
(***************************************************************************)
OutlookLimit == 300
OutlookMinContext == 50
AfdLimit == 400
AfdMinContext == 100
MarineLimit == 300
MarineMinContext == 80

\* lines.slice(from - 1, to).join(' ') with 1-based, clipped bounds
Context(lines, from, to) ==
    Concat(SubSeq(lines, Max(1, from), IF to < Len(lines) THEN to ELSE Len(lines)))

\* the for loop of parseNWSTropicalOutlook from line i on
RECURSIVE ParseOutlookLoop(_, _, _)
ParseOutlookLoop(lines, i, acc) ==
    IF i > Len(lines) THEN acc
    ELSE IF ~Mentions(lines[i], {"disturbance", "tropical", "development"})
    THEN ParseOutlookLoop(lines, i + 1, acc)
    ELSE LET contextText == Context(lines, i, i + 2)
             ms == PercentValues(contextText, "percent", 1)
             kept == Substring0(contextText, OutlookLimit) \o <<"...">>
             a1 == IF ms # <<>> /\ ms[1].v > acc.max
                   THEN [max |-> ms[1].v, text |-> kept] ELSE acc
             a2 == IF a1.text = <<>> /\ CharLen(contextText) > OutlookMinContext
                   THEN [max |-> a1.max, text |-> kept] ELSE a1
         IN  ParseOutlookLoop(lines, i + 1, a2)

parseNWSTropicalOutlook(lines) ==
    LET r == ParseOutlookLoop(lines, 1, [max |-> 0, text |-> <<>>])
    IN  IF r.text # <<>> \/ r.max > 0
        THEN Res(IF r.text # <<>> THEN r.text
                 ELSE <<"The National Weather Service is monitoring tropical activity in the Atlantic basin.">>,
                 IF r.max > 0 THEN Percent(r.max) ELSE <<"Low">>)
        ELSE NullResult

\* the first context long enough, scanning the lines that mention one of ws
RECURSIVE FirstContext(_, _, _, _, _, _)
FirstContext(lines, i, ws, before, after, minLen) ==
    IF i > Len(lines) THEN <<>>
    ELSE IF Mentions(lines[i], ws)
            /\ CharLen(Context(lines, i - before, i + after)) > minLen
    THEN Context(lines, i - before, i + after)
    ELSE FirstContext(lines, i + 1, ws, before, after, minLen)

extractTropicalFromAFD(lines) ==
    LET context == FirstContext(lines, 1, {"tropical", "hurricane", "depression", "disturbance"},
                                2, 3, AfdMinContext)
        tropicalContent == Substring0(context, AfdLimit) \o <<"...">>
        ms == PercentValues(tropicalContent, "percent", 1)
    IN  IF context = <<>> THEN NullResult
        ELSE Res(tropicalContent,
                 IF ms # <<>>
                 THEN SubSeq(tropicalContent, ms[1].at,
                             ms[1].at + RunLen(tropicalContent, ms[1].at) - 1) \o <<"%">>
                 ELSE <<"Monitor">>)

extractTropicalFromMarine(lines) ==
    LET context == FirstContext(lines, 1, {"tropical", "cyclone", "storm"},
                                1, 2, MarineMinContext)
    IN  IF context = <<>> THEN NullResult
        ELSE Res(Substring0(context, MarineLimit) \o <<"...">>, <<"See Marine Forecast">>)

TAlert(ev, area, exp) ==
    [props |-> TRUE, severity |-> "Extreme", hasEvent |-> TRUE, event |-> ev,
     areaDesc |-> area, expires |-> exp]

MalformedTAlert ==
    [props |-> FALSE, severity |-> "Unknown", hasEvent |-> FALSE, event |-> <<>>,
     areaDesc |-> "", expires |-> 0]

\* [...new Set(xs)]: first occurrences, in order
RECURSIVE Dedup(_)
Dedup(xs) ==
    IF xs = <<>> THEN <<>>
    ELSE LET front == Dedup(SubSeq(xs, 1, Len(xs) - 1))
         IN  IF \E k \in DOMAIN front : front[k] = xs[Len(xs)]
             THEN front ELSE Append(front, xs[Len(xs)])

processTropicalAlerts(alerts, clock) ==
    IF \E i \in DOMAIN alerts : ~alerts[i].props THEN NullResult
    ELSE LET active == Pick(alerts, ActiveIdx(alerts, clock), 1)
         IN  IF active = <<>> THEN NullResult
             ELSE Res(<<"Active tropical weather alerts:">>
                      \o Join([k \in DOMAIN active |-> active[k].event])
                      \o <<"affecting">>
                      \o Join(LET areas == Dedup([k \in DOMAIN active |-> active[k].areaDesc])
                              IN  [k \in DOMAIN areas |-> <<areas[k]>>])
                      \o <<".", "Monitor National Weather Service for updates and follow all evacuation orders.">>,
                      <<"Active System">>)

(***************************************************************************)
(* What the endpoints may answer.                                          *)
(***************************************************************************)
Times == 0..MaxTime

Resp(kind) ==
    [kind |-> kind, areas |-> <<>>, html |-> <<>>, items |-> <<>>, storms |-> <<>>,
     lines |-> <<>>, alerts |-> <<>>, clock |-> <<>>]

\* no answer, a non-success status, a body that is not JSON
Failures == {Resp("neterr"), Resp("status"), Resp("badjson")}

AreaPool ==
    { Area(AbsentField, StrField(<<"4", "0", "%">>), FALSE, <<>>),
      Area(StrField(<<"7", "0", "%">>), AbsentField, FALSE, <<>>),
      Area(StrField(<<"N", "/", "A">>), StrField(<<"%">>), TRUE,
           <<"A tropical wave near the Bahamas may develop.">>),
      Area(AbsentField, AbsentField, TRUE, <<"Forecaster Beven", "$$">>),
      Area(NumField, AbsentField, FALSE, <<>>) }

HtmlPool ==
    { <<"<pre>", "Formation", "chance", "through", "7", "days", "medium", "4", "0",
        "percent", ".", "$$", "Forecaster Beven", "</pre>">>,
      <<"<p>", "Formation", "chance", "0", "percent", "</p>">>,
      <<"<p>", "Disturbance", "1", ":", "2", "0", "percent", ".", "Disturbance", "2", ":",
        "6", "0", "percent", ".", "Formation", "chance", "3", "0", "percent", "</p>">>,
      <<"<p>", "Tropical cyclone formation is not expected.", "</p>">> }

ItemPool ==
    { Item(<<"Atlantic", "Tropical", "Weather", "Outlook">>, TRUE,
           <<"Formation", "chance", "3", "0", "percent", ".">>),
      Item(<<"Marine", "Forecast">>, TRUE, <<"Humidity", "9", "0", "%">>),
      Item(<<"Tropical", "Storm", "Advisory">>, TRUE,
           <<"Chance", "6", "0", "%", "then", "2", "0", "percent">>) }

StormPool == {Storm(TRUE, "Alberto"), Storm(FALSE, "")}

ProductPool ==
    { << <<"Tropical", "Weather", "Outlook">>,
         <<"A", "disturbance", "near", "the", "Bahamas", "has", "a", "4", "0", "percent",
           "chance", "of", "development", "during", "the", "next", "7", "days", ".">>,
         <<"$$">>,
         <<"Forecaster Beven">> >>,
      << <<"Tropical", "development", "is", "not", "expected", ",", "0", "percent",
           "chance", "over", "the", "next", "7", "days", "for", "the", "basin", ".">> >>,
      << <<"No", "tropical", "cyclones", "expected", ".">> >>,
      <<>> }

HurricaneWarning == <<"Hurricane", "Warning">>

TropAlertPool ==
    {TAlert(HurricaneWarning, "Coastal Miami-Dade", e) : e \in Times} \cup {MalformedTAlert}

Responses(v, ep) ==
    Failures \cup
    CASE ep = "gtwo" ->
            {Resp("null"), Resp("empty")}
            \cup {[Resp("areas") EXCEPT !.areas = a] : a \in SeqsUpTo(AreaPool, MaxAreas) \ {<<>>}}
      [] ep = "html" -> {[Resp("html") EXCEPT !.html = h] : h \in HtmlPool}
      [] ep = "rss" -> {[Resp("items") EXCEPT !.items = i] : i \in SeqsUpTo(ItemPool, MaxItems)}
      [] ep = "storms" ->
            {Resp("null")}
            \cup {[Resp("storms") EXCEPT !.storms = st] : st \in SeqsUpTo(StormPool, MaxStorms)}
      [] ep \in {"two", "afd", "hsp"} -> {Resp("empty"), Resp("graph")}
      [] ep \in {"twoProduct", "afdProduct", "hspProduct"} ->
            {Resp("notext")} \cup {[Resp("text") EXCEPT !.lines = l] : l \in ProductPool}
      [] ep = "tropAlerts" ->
            {Resp("empty")}
            \cup {[Resp("alerts") EXCEPT !.alerts = <<a>>, !.clock = <<t>>] :
                    a \in TropAlertPool, t \in Times}
      [] OTHER -> {}

\* the environment of a run in which no tropical endpoint can be reached
Unreachable(v, ep) == {Resp("neterr")}

(***************************************************************************)
(* getTropicalOutlook, one endpoint at a time.                             *)
(***************************************************************************)
FirstEndpoint(v) == IF v = "nws" THEN "two" ELSE "gtwo"

\* the source an endpoint belongs to (part_001 asks a list, then a product)
SourceOf(ep) ==
    CASE ep = "twoProduct" -> "two"
      [] ep = "afdProduct" -> "afd"
      [] ep = "hspProduct" -> "hsp"
      [] OTHER -> ep

SourceOrder(v) ==
    CASE v = "main" -> <<"gtwo", "rss", "storms">>
      [] v = "nhc" -> <<"gtwo", "html", "rss", "storms">>
      [] v = "nws" -> <<"two", "tropAlerts", "afd", "hsp">>

NextEndpointMut(v, ep, resp) ==
    IF resp.kind = "neterr" THEN ep
    ELSE IF ep \in {"two", "afd", "hsp"} /\ resp.kind = "graph"
    THEN CASE ep = "two" -> "twoProduct" [] ep = "afd" -> "afdProduct" [] ep = "hsp" -> "hspProduct"
    ELSE LET order == SourceOrder(v)
             k == CHOOSE i \in DOMAIN order : order[i] = SourceOf(ep)
         IN  IF k = Len(order) THEN "fallback" ELSE order[k + 1]
\* the endpoint requested when ep gave nothing to return, "fallback" past the last
NextEndpoint(v, ep, resp) ==
    IF ep \in {"two", "afd", "hsp"} /\ resp.kind = "graph"
    THEN CASE ep = "two" -> "twoProduct" [] ep = "afd" -> "afdProduct" [] ep = "hsp" -> "hspProduct"
    ELSE LET order == SourceOrder(v)
             k == CHOOSE i \in DOMAIN order : order[i] = SourceOf(ep)
         IN  IF k = Len(order) THEN "fallback" ELSE order[k + 1]

\* what the code of endpoint ep returns from getTropicalOutlook on answer resp
SourceResult(v, ep, resp) ==
    CASE resp.kind \in {"neterr", "status", "badjson", "null", "empty", "graph"} -> Nothing
      [] ep = "gtwo" -> Structured(v, resp)
      [] ep = "html" -> HtmlScrape(resp.html)
      [] ep = "rss" -> IF v = "main" THEN RssMain(resp.items) ELSE RssNhc(resp.items)
      [] ep = "storms" -> ActiveStorms(resp.storms)
      [] ep = "twoProduct" ->
            \* return parseNWSTropicalOutlook(productData.productText)
            IF resp.kind = "notext" THEN Found(NullResult)
            ELSE Found(parseNWSTropicalOutlook(resp.lines))
      [] ep = "tropAlerts" ->
            \* return processTropicalAlerts(data.features)
            Found(processTropicalAlerts(resp.alerts, resp.clock))
      [] ep = "afdProduct" ->
            IF resp.kind = "notext" \/ extractTropicalFromAFD(resp.lines).isNull THEN Nothing
            ELSE Found(extractTropicalFromAFD(resp.lines))
      [] ep = "hspProduct" ->
            IF resp.kind = "notext" \/ extractTropicalFromMarine(resp.lines).isNull THEN Nothing
            ELSE Found(extractTropicalFromMarine(resp.lines))
      [] OTHER -> Nothing

OutcomeMut(v, ep, resp, m) ==
    LET r == SourceResult(v, ep, resp)
        n == NextEndpoint(v, ep, resp)
    IN  IF r.found /\ n # "fallback"
        THEN [done |-> FALSE, value |-> r.value, from |-> SourceOf(ep), next |-> n]
        ELSE IF r.found
        THEN [done |-> TRUE, value |-> r.value, from |-> SourceOf(ep), next |-> "none"]
        ELSE IF n = "fallback"
        THEN [done |-> TRUE, value |-> SeasonFallback(v, m), from |-> "fallback", next |-> "none"]
        ELSE [done |-> FALSE, value |-> Unset, from |-> "none", next |-> n]
\* getTropicalOutlook from the answer of ep up to its next request or its return
Outcome(v, ep, resp, m) ==
    LET r == SourceResult(v, ep, resp)
        n == NextEndpoint(v, ep, resp)
    IN  IF r.found
        THEN [done |-> TRUE, value |-> r.value, from |-> SourceOf(ep), next |-> "none"]
        ELSE IF n = "fallback"
        THEN [done |-> TRUE, value |-> SeasonFallback(v, m), from |-> "fallback", next |-> "none"]
        ELSE [done |-> FALSE, value |-> Unset, from |-> "none", next |-> n]

(***************************************************************************)
(* generateStateConditions: one alert request and what is stored for it.   *)
(***************************************************************************)
AlertResp(kind, alerts, clock) == [kind |-> kind, alerts |-> alerts, clock |-> clock]

\* the fetch or response.json() failed, or the status was not ok, or data is null
FetchFailed(out) == out.kind \in {"neterr", "status", "badjson", "null"}

\* the catch branch of generateStateConditions is taken
UsesFallback(out) == FetchFailed(out) \/ AlertsThrow(out.alerts, out.clock)

generateStateConditionsEmpty(state, out, isHotSeason) ==
    IF UsesFallback(out)
    THEN <<>>
    ELSE processAlerts(state, out.alerts, isHotSeason, out.clock).text
generateStateConditionsMut(state, out, isHotSeason) ==
    IF out.kind \in {"neterr", "badjson", "null"} \/ AlertsThrow(out.alerts, out.clock)
    THEN generateFallbackConditions(state, isHotSeason)
    ELSE processAlerts(state, out.alerts, isHotSeason, out.clock).text
\* data.features || [] is out.alerts: empty when the payload has no features
generateStateConditions(state, out, isHotSeason) ==
    IF UsesFallback(out)
    THEN generateFallbackConditions(state, isHotSeason)
    ELSE processAlerts(state, out.alerts, isHotSeason, out.clock).text

\* answers of api.weather.gov/alerts in a run
AlertOutcomes ==
    { AlertResp("neterr", <<>>, <<>>), AlertResp("status", <<>>, <<>>),
      AlertResp("badjson", <<>>, <<>>), AlertResp("null", <<>>, <<>>),
      AlertResp("nofeatures", <<>>, <<>>),
      AlertResp("features", <<Alert("Extreme", HurricaneWarning, MaxTime)>>, <<0>>),
      AlertResp("features", <<MalformedAlert>>, <<0>>) }

\* the environment of a run in which api.weather.gov cannot be reached
AlertsUnreachable == {AlertResp("neterr", <<>>, <<>>)}

(***************************************************************************)
(* generateReport.                                                         *)
(***************************************************************************)
CLOSE == "</div>"
MARKER == "<div id=\"reportOutput\" class=\"report-text\">"

\* String.prototype.replace(/tok/g, open tok close)
RECURSIVE Wrap(_, _, _, _)
Wrap(text, tok, open, close) ==
    IF text = <<>> THEN <<>>
    ELSE (IF Head(text) = tok THEN <<open, tok, close>> ELSE <<Head(text)>>)
         \o Wrap(Tail(text), tok, open, close)

HighlightMut(text) ==
    Wrap(Wrap(Wrap(Wrap(Wrap(Wrap(Wrap(text,
        "frequent lightning", "<strong>", "</strong>"),
        "WARNINGS", "<span class=\"warning\">", "</span>"),
        "WATCHES", "<span class=\"watch\">", "</span>"),
        "ADVISORIES", "<span class=\"advisory\">", "</span>"),
        "frequent lightning", "<strong>", "</strong>"),
        "dangerous lightning", "<strong>", "</strong>"),
        "cloud-to-ground lightning", "<strong>", "</strong>")
\* the six chained replaces on a condition string
Highlight(text) ==
    Wrap(Wrap(Wrap(Wrap(Wrap(Wrap(text,
        "WARNINGS", "<span class=\"warning\">", "</span>"),
        "WATCHES", "<span class=\"watch\">", "</span>"),
        "ADVISORIES", "<span class=\"advisory\">", "</span>"),
        "frequent lightning", "<strong>", "</strong>"),
        "dangerous lightning", "<strong>", "</strong>"),
        "cloud-to-ground lightning", "<strong>", "</strong>")

StateLine(state, cond) ==
    <<"<div class=\"state-report\">", "<span class=\"state-name\">", state, ":", "</span>",
      "<span class=\"state-conditions\">">>
    \o Highlight(cond)
    \o <<"</span>", CLOSE>>

ReportHead(trop) ==
    <<"<div class=\"weather-check-time\">", "Weather.gov map checked at", "CHECKTIME", ".",
      "NWS office verification completed for all SECAR state offices.", CLOSE,
      "<div class=\"date-range\">", "STARTDATE", "-", "ENDDATE", CLOSE,
      "<div class=\"tropical-outlook\">", "<h3>", "Tropical Weather Outlook", "</h3>", "<p>">>
    \o (IF trop.isNull \/ trop.outlook = <<>>
        THEN <<"Tropical outlook not available.">> ELSE trop.outlook)
    \o <<"</p>", "<div class=\"formation-chance\">", "<div class=\"formation-badge\">",
         "Formation Chance:", "<span class=\"formation-percentage\">">>
    \o (IF trop.isNull \/ trop.formation_chance = <<>>
        THEN <<"N/A">> ELSE trop.formation_chance)
    \o <<"</span>", CLOSE, CLOSE, CLOSE,
         "<div class=\"section-title\">", "Severe Weather Threats (5-Day Outlook)", CLOSE>>

ReportTail(v) ==
    <<"<div class=\"recommendations\">", "<div class=\"section-title\">", "Recommendations",
      CLOSE, "<h4>", "Immediate Actions", "</h4>", "<ul>", "Follow all local",
      "<span class=\"warning\">", "WARNINGS", "</span>", ",",
      "<span class=\"watch\">", "WATCHES", "</span>", ", and",
      "<span class=\"advisory\">", "ADVISORIES", "</span>",
      "for heat, thunderstorms, and flooding.", "</ul>",
      "<h4>", "5-Day Monitoring", "</h4>", "<ul>",
      IF v = "nws"
      THEN "Track National Weather Service tropical weather updates for any changes in development probability."
      ELSE "Track NHC Tropical Weather Outlook updates for any changes in tropical development probability.",
      "</ul>", CLOSE, "<div class=\"sources\">",
      IF v = "nws" THEN "Sources: NWS local offices, National Weather Service, NOAA."
      ELSE "Sources: NWS local offices, National Hurricane Center, NOAA.",
      CLOSE>>

generateReportMut(v, cond, trop) ==
    ReportHead(trop)
    \o Concat([i \in DOMAIN WEATHER_OFFICES |->
                 LET state == WEATHER_OFFICES[Len(WEATHER_OFFICES) + 1 - i]
                 IN  IF state \in DOMAIN cond /\ cond[state] # <<>>
                     THEN StateLine(state, cond[state])
                     ELSE <<>>])
    \o ReportTail(v)
\* weatherData is the conditions object cond with its tropical entry trop
generateReport(v, cond, trop) ==
    ReportHead(trop)
    \o Concat([i \in DOMAIN WEATHER_OFFICES |->
                 IF WEATHER_OFFICES[i] \in DOMAIN cond /\ cond[WEATHER_OFFICES[i]] # <<>>
                 THEN StateLine(WEATHER_OFFICES[i], cond[WEATHER_OFFICES[i]])
                 ELSE <<>>])
    \o ReportTail(v)

(***************************************************************************)
(* updateHtmlFile: the replacement in the template.                        *)
(***************************************************************************)
\* the match of /MARKER[\s\S]*?<\/div>/: the first marker that a </div> follows,
\* up to the first </div> after it; from = 0 when there is no match
MarkerMatch(html) ==
    LET starts == {i \in DOMAIN html :
                      html[i] = MARKER /\ \E j \in (i + 1)..Len(html) : html[j] = CLOSE}
    IN  IF starts = {} THEN [from |-> 0, to |-> 0]
        ELSE LET i == CHOOSE k \in starts : \A o \in starts : k <= o
                 j == CHOOSE k \in (i + 1)..Len(html) :
                          html[k] = CLOSE /\ \A o \in (i + 1)..(k - 1) : html[o] # CLOSE
             IN  [from |-> i, to |-> j]

\* GetSubstitution: the $-patterns of a replacement string ($$, $&, $`, $')
RECURSIVE GetSubstitution(_, _, _, _)
GetSubstitution(repl, matched, before, after) ==
    IF repl = <<>> THEN <<>>
    ELSE IF Len(repl) = 1
    THEN (CASE repl[1] = "$$" -> <<"$">>
            [] repl[1] = "$&" -> matched
            [] repl[1] = "$`" -> before
            [] repl[1] = "$'" -> after
            [] OTHER -> repl)
    ELSE LET h == Len(repl) \div 2
         IN  GetSubstitution(SubSeq(repl, 1, h), matched, before, after)
             \o GetSubstitution(SubSeq(repl, h + 1, Len(repl)), matched, before, after)

\* htmlTemplate.replace(regex, `MARKER${reportHtml}</div>`)
ReplaceReport(html, reportHtml) ==
    LET m == MarkerMatch(html)
    IN  IF m.from = 0 THEN html
        ELSE LET before == SubSeq(html, 1, m.from - 1)
                 matched == SubSeq(html, m.from, m.to)
                 after == SubSeq(html, m.to + 1, Len(html))
             IN  before
                 \o GetSubstitution(<<MARKER>> \o reportHtml \o <<CLOSE>>, matched, before, after)
                 \o after

\* update-weather.js only: .replace(/Loading\.\.\./, `Last Updated: ${updateTime}`)
ReplaceLoading(html) ==
    IF ~Includes(html, "Loading...") THEN html
    ELSE LET i == CHOOSE k \in DOMAIN html :
                     html[k] = "Loading..." /\ \A j \in 1..(k - 1) : html[j] # "Loading..."
         IN  SubSeq(html, 1, i - 1) \o <<"Last Updated:", "UPDATETIME">>
             \o SubSeq(html, i + 1, Len(html))

UpdatedHtml(v, html, reportHtml) ==
    IF v = "main" THEN ReplaceLoading(ReplaceReport(html, reportHtml))
    ELSE ReplaceReport(html, reportHtml)

\* an index.html that holds the report container, and one that does not
Page ==
    <<"<body>", "<h1>", "Loading...", "</h1>", MARKER, "Loading...", CLOSE,
      "<div class=\"footer\">", "SECAR", CLOSE, "</body>">>

BarePage == <<"<body>", "<div class=\"footer\">", "SECAR", CLOSE, "</body>">>

Templates == {Page, BarePage}

(***************************************************************************)
(* The run: updateHtmlFile from start to exit.                             *)
(***************************************************************************)
NoCall == [state |-> "", alerts |-> <<>>, isHotSeason |-> FALSE, clock |-> <<>>]
NoReturn == [threw |-> FALSE, text |-> <<>>]

InitRun(variants, months, files) ==
    /\ variant \in variants
    /\ month \in months
    /\ pc = "states"
    /\ idx = 1
    /\ conditions = [s \in {} |-> <<>>]
    /\ failed = {}
    /\ data = AlertResp("none", <<>>, <<>>)
    /\ src = "none"
    /\ requested = <<>>
    /\ answer = Resp("none")
    /\ tropical = Unset
    /\ origin = "none"
    /\ report = <<>>
    /\ template = <<>>
    /\ file \in files
    /\ exitCode = -1
    /\ paIn = NoCall
    /\ paOut = NoReturn
    /\ runs = 1

\* one iteration of the for loop of fetchWeatherConditions: the answer to the
\* alert request of WEATHER_OFFICES[idx] arrives and its condition is stored
FetchState(outs) ==
    /\ pc = "states"
    /\ \E out \in outs :
        LET state == WEATHER_OFFICES[idx]
        IN  /\ conditions' = (state :> generateStateConditions(state, out, IsHotSeason(month)))
                             @@ conditions
            /\ failed' = IF UsesFallback(out) THEN failed \cup {state} ELSE failed
            /\ data' = out
    /\ idx' = idx + 1
    /\ pc' = IF idx = Len(WEATHER_OFFICES) THEN "tropical" ELSE "states"
    /\ src' = IF idx = Len(WEATHER_OFFICES) THEN FirstEndpoint(variant) ELSE src
    /\ UNCHANGED <<variant, month, requested, answer, tropical, origin, report, template, file,
                   exitCode, paIn, paOut, runs>>

\* the answer of endpoint src arrives in getTropicalOutlook
TropicalStep(reachable) ==
    /\ pc = "tropical"
    /\ \E resp \in IF reachable THEN Responses(variant, src) ELSE Unreachable(variant, src) :
        LET o == Outcome(variant, src, resp, month)
        IN  /\ tropical' = o.value
            /\ origin' = o.from
            /\ src' = o.next
            /\ pc' = IF o.done THEN "render" ELSE "tropical"
            /\ answer' = resp
    /\ requested' = Append(requested, src)
    /\ UNCHANGED <<variant, month, idx, conditions, failed, data, report, template, file,
                   exitCode, paIn, paOut, runs>>

RenderMut ==
    /\ pc = "render"
    /\ report' = generateReport(variant, conditions, tropical)
    /\ template' = file
    /\ pc' = "write"
    /\ UNCHANGED <<variant, month, idx, conditions, failed, data, src, requested, answer, tropical,
                   origin, file, exitCode, paIn, paOut, runs>>
\* generateReport(weatherData) in updateHtmlFile
Render ==
    /\ pc = "render"
    /\ report' = generateReport(variant, conditions, tropical)
    /\ pc' = "read"
    /\ UNCHANGED <<variant, month, idx, conditions, failed, data, src, requested, answer, tropical,
                   origin, template, file, exitCode, paIn, paOut, runs>>

ReadTemplateMut ==
    /\ pc = "read"
    /\ \E ok \in BOOLEAN :
        /\ template' = IF ok THEN file ELSE template
        /\ file' = IF ok THEN file ELSE <<>>
        /\ pc' = IF ok THEN "write" ELSE "failed"
        /\ exitCode' = IF ok THEN exitCode ELSE 1
    /\ UNCHANGED <<variant, month, idx, conditions, failed, data, src, requested, answer, tropical,
                   origin, report, paIn, paOut, runs>>
\* fs.readFileSync('index.html', 'utf8'), which may throw
ReadTemplate ==
    /\ pc = "read"
    /\ \E ok \in BOOLEAN :
        /\ template' = IF ok THEN file ELSE template
        /\ pc' = IF ok THEN "write" ELSE "failed"
        /\ exitCode' = IF ok THEN exitCode ELSE 1
    /\ UNCHANGED <<variant, month, idx, conditions, failed, data, src, requested, answer, tropical,
                   origin, report, file, paIn, paOut, runs>>

WriteFileMut ==
    /\ pc = "write"
    /\ \E result \in {"ok", "denied", "truncated"} :
        /\ file' = CASE result = "ok" -> UpdatedHtml(variant, template, report)
                     [] result = "denied" -> file
                     [] result = "truncated" -> <<>>
        /\ pc' = IF result = "ok" THEN "done" ELSE "failed"
        /\ exitCode' = 0
    /\ UNCHANGED <<variant, month, idx, conditions, failed, data, src, requested, answer, tropical,
                   origin, report, template, paIn, paOut, runs>>
\* the replacement in memory and fs.writeFileSync, which may throw before it
\* has opened the file ("denied") or after it has truncated it ("truncated")
WriteFile ==
    /\ pc = "write"
    /\ \E result \in {"ok", "denied", "truncated"} :
        /\ file' = CASE result = "ok" -> UpdatedHtml(variant, template, report)
                     [] result = "denied" -> file
                     [] result = "truncated" -> <<>>
        /\ pc' = IF result = "ok" THEN "done" ELSE "failed"
        /\ exitCode' = IF result = "ok" THEN 0 ELSE 1
    /\ UNCHANGED <<variant, month, idx, conditions, failed, data, src, requested, answer, tropical,
                   origin, report, template, paIn, paOut, runs>>

Months == 0..11

Init == InitRun(Variants, Months, Templates)

\* every tropical answer, with api.weather.gov/alerts?area= unreachable
Next ==
    \/ FetchState(AlertsUnreachable)
    \/ TropicalStep(TRUE)
    \/ Render
    \/ ReadTemplate
    \/ WriteFile

Spec == Init /\ [][Next]_vars

\* the loop of fetchWeatherConditions is the same text in the three files
InitFetch == InitRun({"main"}, {0, 6}, {Page})

\* every alert answer, with the tropical endpoints unreachable
NextFetch ==
    \/ FetchState(AlertOutcomes)
    \/ TropicalStep(FALSE)
    \/ Render
    \/ ReadTemplate
    \/ WriteFile

SpecFetch == InitFetch /\ [][NextFetch]_vars

(***************************************************************************)
(* processAlerts on its own, over every alert list of the bounds.          *)
(***************************************************************************)
AlertPool ==
    {Alert(k[1], k[2], e) :
        k \in { <<"Extreme", HurricaneWarning>>,
                <<"Severe", <<"Flood", "Watch">> >>,
                <<"Moderate", <<"Special", "Weather", "Statement">> >>,
                <<"Minor", <<"Heat", "Advisory">> >>,
                <<"Minor", <<"Rip", "Current", "Statement">> >> },
        e \in Times}
    \cup {NoEventAlert(MaxTime), MalformedAlert}

\* the readings of new Date() during one filter: they never go back
Clocks(n) == {c \in [1..n -> Times] : \A i \in 1..(n - 1) : c[i] <= c[i + 1]}

InitAlerts ==
    /\ variant = "main"
    /\ month = 0
    /\ pc = "call"
    /\ idx = 1
    /\ conditions = [s \in {} |-> <<>>]
    /\ failed = {}
    /\ data = AlertResp("none", <<>>, <<>>)
    /\ src = "none"
    /\ requested = <<>>
    /\ answer = Resp("none")
    /\ tropical = Unset
    /\ origin = "none"
    /\ report = <<>>
    /\ template = <<>>
    /\ file = <<>>
    /\ exitCode = -1
    /\ \E s \in States, h \in BOOLEAN, a \in SeqsUpTo(AlertPool, MaxAlerts) :
        \E c \in Clocks(Len(a)) :
            paIn = [state |-> s, alerts |-> a, isHotSeason |-> h, clock |-> c]
    /\ paOut = NoReturn
    /\ runs = 1

ProcessAlertsCall ==
    /\ pc = "call"
    /\ paOut' = processAlerts(paIn.state, paIn.alerts, paIn.isHotSeason, paIn.clock)
    /\ pc' = "returned"
    /\ UNCHANGED <<variant, month, idx, conditions, failed, data, src, requested, answer, tropical,
                   origin, report, template, file, exitCode, paIn, runs>>

NextAlerts == ProcessAlertsCall

SpecAlerts == InitAlerts /\ [][NextAlerts]_vars

\* the schedule starts the script again on the index.html the last run wrote
Rerun ==
    /\ pc = "done"
    /\ runs < MaxRuns
    /\ runs' = runs + 1
    /\ pc' = "states"
    /\ idx' = 1
    /\ conditions' = [s \in {} |-> <<>>]
    /\ failed' = {}
    /\ data' = AlertResp("none", <<>>, <<>>)
    /\ src' = "none"
    /\ requested' = <<>>
    /\ answer' = Resp("none")
    /\ tropical' = Unset
    /\ origin' = "none"
    /\ report' = <<>>
    /\ template' = <<>>
    /\ exitCode' = -1
    /\ UNCHANGED <<variant, month, file, paIn, paOut>>

InitRerun == InitRun(Variants, {0, 6}, {Page})

\* runs that follow each other, every request of every run failing
NextRerun ==
    \/ FetchState(AlertsUnreachable)
    \/ TropicalStep(FALSE)
    \/ Render
    \/ ReadTemplate
    \/ WriteFile
    \/ Rerun

SpecRerun == InitRerun /\ [][NextRerun]_vars

(***************************************************************************)
(* The highlighting of one stored condition, as a function of its own.     *)
(***************************************************************************)
\* alerts whose event names hold the words the highlighting looks for
HighlightAlerts ==
    { Alert("Severe", <<"frequent lightning">>, MaxTime),
      Alert("Minor", <<"Tornado", "Watch">>, MaxTime),
      Alert("Moderate", <<"dangerous lightning", "WARNINGS">>, MaxTime),
      Alert("Minor", <<"Heat", "Advisory">>, MaxTime) }

InitHighlight ==
    /\ variant = "main"
    /\ month \in {0, 6}
    /\ pc = "condition"
    /\ idx = 1
    /\ \E state \in States :
        \* the text processAlerts builds is the same for every state: one is enough
        \E out \in {AlertResp("neterr", <<>>, <<>>)}
                    \cup (IF state # WEATHER_OFFICES[1] THEN {}
                          ELSE {AlertResp("features", a, [i \in DOMAIN a |-> 0]) :
                                   a \in SeqsUpTo(HighlightAlerts, MaxAlerts)}) :
            /\ data = out
            /\ conditions = (state :> generateStateConditions(state, out, IsHotSeason(month)))
            /\ failed = IF UsesFallback(out) THEN {state} ELSE {}
    /\ src = "none"
    /\ requested = <<>>
    /\ answer = Resp("none")
    /\ tropical = Unset
    /\ origin = "none"
    /\ report = <<>>
    /\ template = <<>>
    /\ file = <<>>
    /\ exitCode = -1
    /\ paIn = NoCall
    /\ paOut = NoReturn
    /\ runs = 1

\* the chained replaces of generateReport on the condition of one state
HighlightCall ==
    /\ pc = "condition"
    /\ \E state \in DOMAIN conditions :
        paOut' = [threw |-> FALSE, text |-> Highlight(conditions[state])]
    /\ pc' = "highlighted"
    /\ UNCHANGED <<variant, month, idx, conditions, failed, data, src, requested, answer, tropical,
                   origin, report, template, file, exitCode, paIn, runs>>

NextHighlight == HighlightCall

SpecHighlight == InitHighlight /\ [][NextHighlight]_vars

(***************************************************************************)
(* Properties.                                                             *)
(***************************************************************************)
Hot == IsHotSeason(month)

LastRequested == requested[Len(requested)]

\* position of a source in the priority order of the variant
Pos(source) ==
    CHOOSE k \in DOMAIN SourceOrder(variant) : SourceOrder(variant)[k] = source

AllSourcesRequested ==
    \A k \in DOMAIN SourceOrder(variant) :
        \E i \in DOMAIN requested : SourceOf(requested[i]) = SourceOrder(variant)[k]

ContainsPhrase(text, phrase) ==
    \E p \in 1..(Len(text) - Len(phrase) + 1) : SubSeq(text, p, p + Len(phrase) - 1) = phrase

Without(s, i) == SubSeq(s, 1, i - 1) \o SubSeq(s, i + 1, Len(s))

\* the catch branch of generateStateConditions has to be taken on answer out:
\* the request failed, the status was not a success, or the payload is one
\* processAlerts throws on
MustFallBack(out) ==
    \/ out.kind \in {"neterr", "status", "badjson", "null"}
    \/ \E i \in DOMAIN out.alerts : out.alerts[i] = MalformedAlert

\* C1: whatever subset of the alert fetches fails, every jurisdiction of the
\* catalog gets a condition: the fallback text where the request failed, the
\* status was not a success or the payload made processAlerts throw, the
\* processAlerts text everywhere else; a condition once stored is never
\* changed by the iteration of another jurisdiction, and the run never ends
\* in the fetch.
C1_FetchIsolation ==
    /\ [](/\ DOMAIN conditions = {WEATHER_OFFICES[i] : i \in 1..(idx - 1)}
          /\ pc # "states" => DOMAIN conditions = States
          /\ pc = "failed" => report # <<>>
          /\ idx > 1 =>
                LET s == WEATHER_OFFICES[idx - 1]
                IN  /\ s \in failed <=> MustFallBack(data)
                    /\ conditions[s] =
                          IF MustFallBack(data)
                          THEN generateFallbackConditions(s, Hot)
                          ELSE processAlerts(s, data.alerts, Hot, data.clock).text)
    /\ [][/\ \A s \in DOMAIN conditions :
               s \in DOMAIN conditions' /\ conditions'[s] = conditions[s]
           /\ failed \subseteq failed'
           /\ failed' \ failed \subseteq DOMAIN conditions' \ DOMAIN conditions]_vars

C1_Witness ==
    /\ pc = "render"
    /\ failed = {"Tennessee", "Florida", "U.S. Virgin Islands"}
    /\ data.kind = "status"
    /\ conditions["Tennessee"] = generateFallbackConditions("Tennessee", Hot)
    /\ Includes(conditions["Alabama"], "WARNINGS")
    /\ conditions["U.S. Virgin Islands"] = generateFallbackConditions("U.S. Virgin Islands", Hot)

\* C2: what getTropicalOutlook hands back is a record with a non-empty outlook
\* text and a non-empty formation chance, never null.
C2_StructuredResult ==
    tropical.set =>
        /\ ~tropical.isNull
        /\ tropical.outlook # <<>>
        /\ tropical.formation_chance # <<>>

\* C3: getTropicalOutlook ends without a usable result of a source (with the
\* season message, or with nothing) only after it has requested every source.
C3_NextSourceTried ==
    (tropical.set /\ (origin = "fallback" \/ tropical.isNull)) => AllSourcesRequested

\* C4: once a source has given the result, getTropicalOutlook is over: nothing
\* more is requested, no source after that one was requested, and the record
\* is exactly what that source's code built from that source's answer.
C4_FirstResultWins ==
    tropical.set =>
        /\ pc \notin {"states", "tropical"}
        /\ src = "none"
        /\ origin # "fallback" =>
              /\ SourceOf(LastRequested) = origin
              /\ \A i \in DOMAIN requested : Pos(SourceOf(requested[i])) <= Pos(origin)
              /\ SourceResult(variant, LastRequested, answer) = Found(tropical)

C4_Witness ==
    /\ pc = "done"
    /\ variant = "nhc"
    /\ origin = "html"
    /\ requested = <<"gtwo", "html">>

\* C5: when no source gave a result, the formation chance is "0%" outside
\* June..November and the variant's descriptive token within it.
C5_SeasonFallback ==
    origin = "fallback" =>
        IF month \in {5, 6, 7, 8, 9, 10}
        THEN tropical.formation_chance =
                (CASE variant = "main" -> <<"Check NHC">>
                   [] variant = "nhc" -> <<"Visit NHC">>
                   [] variant = "nws" -> <<"Monitor NWS">>)
        ELSE tropical.formation_chance = <<"0", "%">>

C5_Witness == origin = "fallback" /\ month = 5 /\ AllSourcesRequested /\ pc = "done"

\* C6: a result of the structured source carries the maximum probability over
\* all areas and over both chance2day and chance7day.
C6_MaxOverAll ==
    (tropical.set /\ origin = "gtwo") =>
        tropical.formation_chance =
            Percent(Max(MaxChance7Day(answer.areas), MaxChance2Day(answer.areas)))

NoneActive(alerts, clock) == \A i \in DOMAIN alerts : alerts[i].expires <= clock[i]

\* C7: with no active alert and outside the hot season processAlerts returns
\* the "No significant weather hazards" sentence of the jurisdiction.
C7_NoHazardsSentence ==
    (pc = "returned" /\ ~paOut.threw /\ ~paIn.isHotSeason
       /\ NoneActive(paIn.alerts, paIn.clock)) =>
        paOut.text = NoHazards(paIn.state)

EventPool == {a.event : a \in {x \in AlertPool : x.hasEvent}}

\* C8: an alert that has expired when it is judged (expires <= now) adds
\* nothing: the text is the one of the list without it, its event name is in
\* the text only if an active alert carries the same name, and every event
\* name in the text is that of an alert with expires > now.
C8_ExpiredExcluded ==
    (pc = "returned" /\ ~paOut.threw) =>
        /\ \A i \in DOMAIN paIn.alerts :
              paIn.alerts[i].expires <= paIn.clock[i] =>
                /\ paOut.text = processAlerts(paIn.state, Without(paIn.alerts, i),
                                              paIn.isHotSeason, Without(paIn.clock, i)).text
                /\ (paIn.alerts[i].hasEvent
                    /\ \A j \in DOMAIN paIn.alerts :
                          paIn.alerts[j].expires > paIn.clock[j]
                             => paIn.alerts[j].event # paIn.alerts[i].event)
                   => ~ContainsPhrase(paOut.text, paIn.alerts[i].event)
        /\ \A e \in EventPool :
              ContainsPhrase(paOut.text, e) =>
                \E j \in DOMAIN paIn.alerts :
                    paIn.alerts[j].event = e /\ paIn.alerts[j].expires > paIn.clock[j]

C8_Witness ==
    /\ pc = "returned"
    /\ ~paOut.threw
    /\ Len(paIn.alerts) = 2
    /\ paIn.alerts[1].hasEvent
    /\ paIn.alerts[1].expires = paIn.clock[1]
    /\ paIn.alerts[2].expires > paIn.clock[2]
    /\ paIn.alerts[1].event # paIn.alerts[2].event
    /\ ContainsPhrase(paOut.text, paIn.alerts[2].event)

\* the event names of the sentence that ends with label, <<>> without one
SentenceNames(text, label) ==
    IF ~Includes(text, label) THEN <<>>
    ELSE LET p == CHOOSE k \in DOMAIN text : text[k] = label
             ends == {k \in 1..(p - 1) : text[k] = "in effect."}
             q == IF ends = {} THEN 0 ELSE CHOOSE k \in ends : \A o \in ends : o <= k
         IN  SubSeq(text, q + 1, p - 1)

\* the comma-joined events of the active alerts at the positions in group
ExpectedNames(alerts, group) ==
    Join([k \in 1..Cardinality(group) |-> Pick(alerts, group, 1)[k].event])

\* C9: one active Extreme "Hurricane Warning" gives one WARNINGS sentence that
\* names it and no WATCHES or ADVISORIES sentence; the WATCHES sentence names
\* exactly the active alerts whose event contains "Watch", the ADVISORIES
\* sentence exactly those of severity Moderate or with "Advisory" in the event.
C9_GroupRules ==
    (pc = "returned" /\ ~paOut.threw) =>
        /\ (/\ Len(paIn.alerts) = 1
            /\ paIn.alerts[1].severity = "Extreme"
            /\ paIn.alerts[1].event = HurricaneWarning
            /\ paIn.alerts[1].expires > paIn.clock[1])
           => /\ Count(paOut.text, "WARNINGS") = 1
              /\ SentenceNames(paOut.text, "WARNINGS") = <<"Active", "Hurricane", "Warning">>
              /\ Count(paOut.text, "WATCHES") = 0
              /\ Count(paOut.text, "ADVISORIES") = 0
        /\ Count(paOut.text, "WATCHES") <= 1
        /\ Count(paOut.text, "ADVISORIES") <= 1
        /\ SentenceNames(paOut.text, "WATCHES") =
              ExpectedNames(paIn.alerts,
                  {i \in DOMAIN paIn.alerts :
                      /\ paIn.alerts[i].expires > paIn.clock[i]
                      /\ Includes(paIn.alerts[i].event, "Watch")})
        /\ SentenceNames(paOut.text, "ADVISORIES") =
              ExpectedNames(paIn.alerts,
                  {i \in DOMAIN paIn.alerts :
                      /\ paIn.alerts[i].expires > paIn.clock[i]
                      /\ (paIn.alerts[i].severity = "Moderate"
                          \/ Includes(paIn.alerts[i].event, "Advisory"))})

C9_Witness ==
    /\ pc = "returned"
    /\ ~paOut.threw
    /\ paIn.alerts = <<Alert("Extreme", HurricaneWarning, MaxTime)>>
    /\ paIn.clock = <<0>>
    /\ Count(paOut.text, "WARNINGS") = 1

DivOpens ==
    {MARKER, "<div class=\"weather-check-time\">", "<div class=\"date-range\">",
     "<div class=\"tropical-outlook\">", "<div class=\"formation-chance\">",
     "<div class=\"formation-badge\">", "<div class=\"section-title\">",
     "<div class=\"state-report\">", "<div class=\"recommendations\">",
     "<div class=\"sources\">", "<div class=\"footer\">"}

\* the position of the </div> that closes the div whose content starts at
\* position i: the first one before which the divs opened from i are all closed
ClosingDiv(html, i) ==
    LET Opens(k) == Cardinality({j \in i..k : html[j] \in DivOpens})
        Closes(k) == Cardinality({j \in i..k : html[j] = CLOSE})
        ends == {k \in i..Len(html) : html[k] = CLOSE /\ Closes(k) = Opens(k) + 1}
    IN  IF ends = {} THEN Len(html) + 1
        ELSE CHOOSE k \in ends : \A o \in ends : k <= o

\* the inner content of the report container of a page
InnerOf(html) ==
    LET m == CHOOSE k \in DOMAIN html : html[k] = MARKER /\ \A j \in 1..(k - 1) : html[j] # MARKER
    IN  SubSeq(html, m + 1, ClosingDiv(html, m + 1) - 1)

\* C10: after a successful run on a template that holds the container, the
\* content of the container in the written file is the fragment generateReport
\* returned.
C10_RoundTrip ==
    (pc = "done" /\ Count(template, MARKER) = 1) => InnerOf(file) = report

ReportStart == "<div class=\"weather-check-time\">"

\* C11: after two or more successful runs on the same index.html the file
\* holds one rendered report, the one of the latest run, and nothing more:
\* the container holds exactly the fragment of this run.
C11_OneReport ==
    (runs >= 2 /\ pc = "done") =>
        /\ Count(file, ReportStart) = 1
        /\ InnerOf(file) = report
        /\ Len(file) = Len(UpdatedHtml(variant, Page, report))

\* C12: a run on an index.html without the report container does not end as
\* a success with exit status 0.
C12_MissingMarkerReported ==
    (template # <<>> /\ ~Includes(template, MARKER)) => ~(pc = "done" /\ exitCode = 0)

\* C13: the exit status is non-zero exactly in the runs where the read or the
\* write of index.html threw, and 0 in every other finished run, also when
\* every request failed; it is decided by the read or the write only.
C13_ExitStatus ==
    /\ [](/\ exitCode \in {-1, 0, 1}
          /\ exitCode = 0 <=> pc = "done"
          /\ exitCode = 1 <=> pc = "failed"
          /\ exitCode = -1 <=> pc \in {"states", "tropical", "render", "read", "write"})
    /\ [][(exitCode' = 1 /\ exitCode # 1) <=>
             (pc \in {"read", "write"} /\ pc' = "failed")]_vars
    /\ [][(exitCode' = 0 /\ exitCode # 0) =>
             (pc = "write" /\ file' = UpdatedHtml(variant, template, report))]_vars

C13_Witness ==
    /\ pc = "done"
    /\ exitCode = 0
    /\ failed = States
    /\ origin = "fallback"
    /\ AllSourcesRequested

\* C14: index.html changes only in the write step, which comes once, after
\* the fetch, the render, the read and the replacement; a run that fails at
\* the read leaves the file as it was.
C14_WriteOnce ==
    /\ [][file' # file =>
             /\ pc = "write"
             /\ pc' \in {"done", "failed"}
             /\ DOMAIN conditions = States
             /\ tropical.set
             /\ report = generateReport(variant, conditions, tropical)
             /\ template = file]_vars
    /\ [][(pc \in {"done", "failed"}) => file' = file]_vars
    /\ []((pc = "failed" /\ template = <<>>) => file \in Templates)

C14_Witness ==
    /\ pc = "failed"
    /\ exitCode = 1
    /\ template = <<>>
    /\ report # <<>>
    /\ file = Page

\* the tokens of text that directly follow an occurrence of tok, in order
Following(text, tok) ==
    LET at == {i \in 2..Len(text) : text[i - 1] = tok}
    IN  [k \in 1..Cardinality(at) |->
            text[CHOOSE i \in at : Cardinality({j \in at : j < i}) = k - 1]]

\* C15: the state lines of the rendered report are those of Tennessee,
\* Mississippi, Alabama, Georgia, Florida, North Carolina, South Carolina and
\* U.S. Virgin Islands, in this order, whichever fetches failed.
C15_CatalogOrder ==
    report # <<>> =>
        /\ Following(report, "<span class=\"state-name\">") =
              <<"Tennessee", "Mississippi", "Alabama", "Georgia", "Florida",
                "North Carolina", "South Carolina", "U.S. Virgin Islands">>
        /\ Count(report, "<div class=\"state-report\">") = Len(WEATHER_OFFICES)

C15_Witness ==
    /\ pc = "done"
    /\ failed = {"Tennessee", "Florida", "South Carolina"}
    /\ Includes(conditions["Mississippi"], "WARNINGS")
    /\ Following(file, "<span class=\"state-name\">") = WEATHER_OFFICES

\* the six substitutions of generateReport: target, opening and closing markup
Substitutions ==
    << <<"WARNINGS", "<span class=\"warning\">", "</span>">>,
       <<"WATCHES", "<span class=\"watch\">", "</span>">>,
       <<"ADVISORIES", "<span class=\"advisory\">", "</span>">>,
       <<"frequent lightning", "<strong>", "</strong>">>,
       <<"dangerous lightning", "<strong>", "</strong>">>,
       <<"cloud-to-ground lightning", "<strong>", "</strong>">> >>

\* the substitutions applied in the order given by the sequence of indices
RECURSIVE ApplyInOrder(_, _)
ApplyInOrder(order, text) ==
    IF order = <<>> THEN text
    ELSE LET sub == Substitutions[Head(order)]
         IN  ApplyInOrder(Tail(order), Wrap(text, sub[1], sub[2], sub[3]))

Orders ==
    {o \in [DOMAIN Substitutions -> DOMAIN Substitutions] :
        \A i, j \in DOMAIN o : i # j => o[i] # o[j]}

TheCondition == conditions[CHOOSE state \in DOMAIN conditions : TRUE]

\* C16: in a rendered condition every "frequent lightning" stands between one
\* <strong> and one </strong>, never two, also next to WARNINGS, and there are
\* as many as in the condition; applying the six substitutions in any order
\* gives the same text.
C16_HighlightOnce ==
    pc = "highlighted" =>
        /\ Count(paOut.text, "frequent lightning") = Count(TheCondition, "frequent lightning")
        /\ \A i \in DOMAIN paOut.text :
              paOut.text[i] = "frequent lightning" =>
                /\ i > 1 /\ paOut.text[i - 1] = "<strong>"
                /\ i < Len(paOut.text) /\ paOut.text[i + 1] = "</strong>"
                /\ i > 2 => paOut.text[i - 2] # "<strong>"
                /\ i + 2 <= Len(paOut.text) => paOut.text[i + 2] # "</strong>"
        /\ Count(paOut.text, "<strong>") =
              Count(TheCondition, "frequent lightning")
              + Count(TheCondition, "dangerous lightning")
              + Count(TheCondition, "cloud-to-ground lightning")
        /\ \A o \in Orders : ApplyInOrder(o, TheCondition) = paOut.text

C16_Witness ==
    /\ pc = "highlighted"
    /\ ContainsPhrase(TheCondition, <<"Active", "frequent lightning", "WARNINGS">>)
    /\ ContainsPhrase(paOut.text,
          <<"Active", "<strong>", "frequent lightning", "</strong>",
            "<span class=\"warning\">", "WARNINGS", "</span>">>)

\* a probability string without a number in front: "N/A", "%", ""
NonNumeric(f) == f.kind = "str" /\ (f.s = <<>> \/ f.s[1] \notin {"1", "2", "3", "4", "5", "6", "7", "8", "9", "0"})

ZeroField(f) == IF NonNumeric(f) THEN StrField(<<"0", "%">>) ELSE f

\* the answer with "0%" in the place of every probability that is no number
ZeroedAnswer(resp) ==
    [resp EXCEPT !.areas = [i \in DOMAIN resp.areas |->
                               [resp.areas[i] EXCEPT !.c2 = ZeroField(@), !.c7 = ZeroField(@)]]]

HasNumberField(areas) ==
    \E i \in DOMAIN areas : areas[i].c2.kind = "num" \/ areas[i].c7.kind = "num"

TextWithoutChance(areas) ==
    /\ \E i \in DOMAIN areas : areas[i].hasText /\ areas[i].text # <<>>
    /\ \A i \in DOMAIN areas :
          /\ areas[i].c2 = AbsentField \/ NonNumeric(areas[i].c2)
          /\ areas[i].c7 = AbsentField \/ NonNumeric(areas[i].c7)

\* C18: when the structured source answers areas that carry free text but no
\* probability above zero, getTropicalOutlook returns from the structured
\* source with that text and requests no later source.
C18_TextIsUsable ==
    (/\ requested # <<>>
     /\ LastRequested = "gtwo"
     /\ answer.kind = "areas"
     /\ TextWithoutChance(answer.areas)) =>
        /\ tropical.set
        /\ origin = "gtwo"
        /\ src = "none"
        /\ \A i \in DOMAIN answer.areas :
              answer.areas[i].hasText => ContainsPhrase(tropical.outlook, answer.areas[i].text)

CountPhrase(text, phrase) ==
    Cardinality({p \in 1..(Len(text) - Len(phrase) + 1) :
                    SubSeq(text, p, p + Len(phrase) - 1) = phrase})

\* C19: no event name is listed twice in the warning, the watch or the
\* advisory sentence, also when several active alerts carry the same name.
C19_DistinctNames ==
    (pc = "returned" /\ ~paOut.threw) =>
        \A label \in {"WARNINGS", "WATCHES", "ADVISORIES"} :
            \A e \in EventPool :
                CountPhrase(SentenceNames(paOut.text, label), e) <= 1

\* C20: the condition of a jurisdiction whose alert fetch failed holds no
\* "... in effect." sentence and no seasonal reminder; in the cold season it
\* is "Seasonal temperatures expected for <jurisdiction>." followed by the
\* mild-weather sentence for Florida and U.S. Virgin Islands and by the
\* winter-monitoring sentence for the other six.
C20_FallbackText ==
    \A s \in failed :
        /\ s \in DOMAIN conditions
        /\ ~Includes(conditions[s], "in effect.")
        /\ \A t \in {"Monitor for heat stress during outdoor activities.",
                      "Stay hydrated and seek air conditioning during peak heating hours.",
                      "Typical seasonal weather patterns expected.",
                      "Monitor for changing conditions."} : ~Includes(conditions[s], t)
        /\ month \notin {4, 5, 6, 7, 8, 9} =>
              conditions[s] =
                <<"Seasonal temperatures expected for", s, ".",
                  IF s \in {"Florida", "U.S. Virgin Islands"}
                  THEN "Mild temperatures with occasional shower activity."
                  ELSE "Monitor for potential winter weather impacts and changing conditions.">>
        /\ month \in {4, 5, 6, 7, 8, 9} =>
              /\ SubSeq(conditions[s], 1, 3) =
                    <<"Hot and humid conditions with", "ADVISORIES",
                      "for heat index values near or above 100F.">>
              /\ Len(conditions[s]) > 3

C20_Witness ==
    /\ pc = "done"
    /\ month = 0
    /\ failed = {"Florida", "Tennessee", "U.S. Virgin Islands"}
    /\ Includes(conditions["Georgia"], "in effect.")

\* the names between "active system(s):" and the closing full stop
StormNames(outlook) ==
    LET a == CHOOSE p \in DOMAIN outlook : outlook[p] = "active system(s):"
        b == CHOOSE p \in DOMAIN outlook : p > a /\ outlook[p] = "."
    IN  SubSeq(outlook, a + 1, b - 1)

\* C21: a result taken from a non-empty active-storm listing has formation
\* chance "Active Systems" and an outlook that states how many systems the
\* listing holds and names them one by one in listing order, a system
\* without a name as "Unnamed".
C21_ActiveSystems ==
    (tropical.set /\ LastRequested = "storms" /\ answer.kind = "storms" /\ answer.storms # <<>>) =>
        /\ origin = "storms"
        /\ tropical.formation_chance = <<"Active Systems">>
        /\ \E p \in DOMAIN tropical.outlook :
              /\ tropical.outlook[p] = "The National Hurricane Center is currently tracking"
              /\ parseInt(SubSeq(tropical.outlook, p + 1, Len(tropical.outlook))) =
                    [nan |-> FALSE, val |-> Len(answer.storms)]
        /\ LET names == StormNames(tropical.outlook)
           IN  /\ Len(names) = 2 * Len(answer.storms) - 1
               /\ \A k \in DOMAIN answer.storms :
                     /\ names[2 * k - 1] = IF answer.storms[k].hasName
                                           THEN answer.storms[k].name ELSE "Unnamed"
                     /\ k > 1 => names[2 * k - 2] = ","

C21_Witness ==
    /\ pc = "done"
    /\ origin = "storms"
    /\ Len(answer.storms) = 2
    /\ \E k \in DOMAIN answer.storms : ~answer.storms[k].hasName
    /\ \E k \in DOMAIN answer.storms : answer.storms[k].hasName

\* C22: one call of processAlerts judges all its alerts against one instant:
\* what it returns is what it returns when every alert of the list is
\* compared with one and the same reading of the clock, so two alerts with
\* equal expires are both active or both excluded.
C22_OneInstant ==
    pc = "returned" =>
        \E now \in Times :
            paOut = processAlerts(paIn.state, paIn.alerts, paIn.isHotSeason,
                                  [i \in DOMAIN paIn.alerts |-> now])

\* where the sentence with this label ends in text, 0 without that sentence
LabelPos(text, label) ==
    IF Includes(text, label) THEN CHOOSE k \in DOMAIN text : text[k] = label ELSE 0

\* C23: an active alert is named in the sentence of every group whose rule it
\* satisfies (Severe, Extreme or "Warning": WARNINGS; "Watch": WATCHES;
\* Moderate or "Advisory": ADVISORIES), and the sentences present stand in
\* the order WARNINGS (starting with "Active"), WATCHES, ADVISORIES, with the
\* seasonal reminder after the last of them.
C23_GroupsOverlapInOrder ==
    (pc = "returned" /\ ~paOut.threw) =>
        LET text == paOut.text
            w == LabelPos(text, "WARNINGS")
            t == LabelPos(text, "WATCHES")
            a == LabelPos(text, "ADVISORIES")
            last == Max(w, Max(t, a))
            seasonal == getSeasonalConditions(paIn.state, paIn.isHotSeason)
        IN  /\ \A i \in DOMAIN paIn.alerts :
                  paIn.alerts[i].expires > paIn.clock[i] =>
                    LET al == paIn.alerts[i]
                    IN  /\ (al.severity \in {"Severe", "Extreme"} \/ Includes(al.event, "Warning"))
                            => ContainsPhrase(SentenceNames(text, "WARNINGS"), al.event)
                        /\ Includes(al.event, "Watch")
                            => ContainsPhrase(SentenceNames(text, "WATCHES"), al.event)
                        /\ (al.severity = "Moderate" \/ Includes(al.event, "Advisory"))
                            => ContainsPhrase(SentenceNames(text, "ADVISORIES"), al.event)
            /\ w > 0 => (text[1] = "Active" /\ (t > 0 => w < t) /\ (a > 0 => w < a))
            /\ w = 0 => ~Includes(text, "Active")
            /\ (t > 0 /\ a > 0) => t < a
            /\ last > 0 => text[last + 1] = "in effect."
            /\ SubSeq(text, IF last = 0 THEN 1 ELSE last + 2, Len(text)) = seasonal

C23_Witness ==
    /\ pc = "returned"
    /\ ~paOut.threw
    /\ \E i \in DOMAIN paIn.alerts :
          /\ paIn.alerts[i].severity = "Severe"
          /\ paIn.alerts[i].event = <<"Flood", "Watch">>
          /\ paIn.alerts[i].expires > paIn.clock[i]
    /\ ContainsPhrase(SentenceNames(paOut.text, "WARNINGS"), <<"Flood", "Watch">>)
    /\ ContainsPhrase(SentenceNames(paOut.text, "WATCHES"), <<"Flood", "Watch">>)
    /\ LabelPos(paOut.text, "ADVISORIES") > LabelPos(paOut.text, "WATCHES")

\* the last n tokens of text
Suffix(text, n) == SubSeq(text, Len(text) - n + 1, Len(text))

\* C24: whatever the alert list, the empty one included, the text processAlerts
\* returns ends with the seasonal reminder: the heat-safety sentences when
\* isHotSeason, the seasonal-monitoring sentences otherwise.
C24_SeasonalEnding ==
    (pc = "returned" /\ ~paOut.threw) =>
        /\ Len(paOut.text) >= 2
        /\ Suffix(paOut.text, 2) =
              IF paIn.isHotSeason
              THEN <<"Monitor for heat stress during outdoor activities.",
                     "Stay hydrated and seek air conditioning during peak heating hours.">>
              ELSE <<"Typical seasonal weather patterns expected.",
                     "Monitor for changing conditions.">>

C24_Witness ==
    /\ pc = "returned"
    /\ ~paOut.threw
    /\ paIn.alerts = <<>>
    /\ paIn.isHotSeason
    /\ paOut.text = <<"Monitor for heat stress during outdoor activities.",
                      "Stay hydrated and seek air conditioning during peak heating hours.">>

\* how far the run has come
Rank(p) ==
    CASE p = "states" -> 0
      [] p = "tropical" -> 1
      [] p = "render" -> 2
      [] p = "read" -> 3
      [] p = "write" -> 4
      [] OTHER -> 5

\* C25: the steps of one run follow one another without overlap: the alert
\* requests one jurisdiction after the other in catalog order, each after the
\* condition of the one before is stored; then the tropical sources in
\* priority order; then the render; then the read of index.html; then the
\* write, the only step that changes the file.
C25_Sequential ==
    /\ [](/\ pc = "states" =>
              /\ DOMAIN conditions = {WEATHER_OFFICES[k] : k \in 1..(idx - 1)}
              /\ requested = <<>>
          /\ pc # "states" => DOMAIN conditions = States
          /\ Rank(pc) <= 1 => (~tropical.set /\ report = <<>>)
          /\ Rank(pc) <= 3 => template = <<>>
          /\ Rank(pc) \in {2, 3, 4} => tropical.set
          /\ Rank(pc) \in {3, 4} => report # <<>>
          /\ pc = "write" => template = file
          /\ requested # <<>> => requested[1] = FirstEndpoint(variant)
          /\ \A i \in 1..(Len(requested) - 1) :
                Pos(SourceOf(requested[i + 1])) - Pos(SourceOf(requested[i])) \in {0, 1})
    /\ [][Rank(pc') \in {Rank(pc), Rank(pc) + 1} \/ pc' = "failed"]_vars
    /\ [][(pc = "states") =>
            (/\ idx' = idx + 1
             /\ DOMAIN conditions' = DOMAIN conditions \cup {WEATHER_OFFICES[idx]}
             /\ requested' = requested)]_vars
    /\ [][(conditions' # conditions) => (pc = "states")]_vars
    /\ [][(requested' # requested \/ tropical' # tropical) => (pc = "tropical")]_vars
    /\ [][(report' # report) => (pc = "render")]_vars
    /\ [][(template' # template) => (pc = "read")]_vars
    /\ [][(file' # file) => (pc = "write")]_vars

C25_Witness ==
    /\ pc = "done"
    /\ variant = "nhc"
    /\ requested = <<"gtwo", "html", "rss", "storms">>
    /\ DOMAIN conditions = States
    /\ file # template

\* the requests of the run that went to the endpoints of one source
RequestsOf(source) == {i \in DOMAIN requested : SourceOf(requested[i]) = source}

\* C26 as stated: in one run there is one alert request per jurisdiction and
\* no tropical source is requested more than once.
C26_OnceEachSource ==
    /\ Cardinality(DOMAIN conditions) = idx - 1
    /\ \A k \in DOMAIN SourceOrder(variant) :
          Cardinality(RequestsOf(SourceOrder(variant)[k])) <= 1

\* an upper bound on the requests one run makes
MaxRequests == Len(WEATHER_OFFICES) + (IF variant = "nws" THEN 2 ELSE 1) * Len(SourceOrder(variant))

\* what is left of the run: requests not yet made and steps not yet taken
Remaining == MaxRequests - (idx - 1) - Len(requested) + 5 - Rank(pc)

\* C26, amended: in one run no endpoint is requested twice and nothing is
\* retried: one alert request per jurisdiction; per tropical source one
\* request, or two where the source is a product list followed by its
\* latest product; so the number of requests is bounded, every step brings
\* the run nearer to its end and the run is never left waiting on a source
\* it has already asked.
C26_NoRetry ==
    /\ [](/\ Cardinality(DOMAIN conditions) = idx - 1
          /\ idx - 1 <= Len(WEATHER_OFFICES)
          /\ \A i, j \in DOMAIN requested : i # j => requested[i] # requested[j]
          /\ \A k \in DOMAIN SourceOrder(variant) :
                LET rs == RequestsOf(SourceOrder(variant)[k])
                IN  /\ Cardinality(rs) <= 2
                    /\ Cardinality(rs) = 2 =>
                          \E i \in rs :
                              /\ rs = {i, i + 1}
                              /\ requested[i] \in {"two", "afd", "hsp"}
                              /\ requested[i + 1] =
                                    NextEndpoint(variant, requested[i], Resp("graph"))
          /\ (idx - 1) + Len(requested) <= MaxRequests
          /\ Remaining >= 0
          /\ pc = "states" => idx <= Len(WEATHER_OFFICES)
          /\ pc = "tropical" => (\A i \in DOMAIN requested : requested[i] # src))
    /\ [][Remaining' < Remaining]_vars

C26_Witness ==
    /\ pc = "done"
    /\ variant = "nws"
    /\ origin = "fallback"
    /\ answer.kind = "neterr"
    /\ requested = <<"two", "tropAlerts", "afd", "afdProduct", "hsp", "hspProduct">>

\* C27: a run that wrote index.html changed only the report container: what
\* stood before the container and what stood after it in the file read is
\* in the file written, token for token (the whole file without a container).
C27_OnlyContainerChanges ==
    pc = "done" =>
        LET m == MarkerMatch(template)
            tail == Len(template) - m.to
        IN  IF m.from = 0 THEN file = template
            ELSE /\ Len(file) >= m.from - 1 + tail
                 /\ SubSeq(file, 1, m.from - 1) = SubSeq(template, 1, m.from - 1)
                 /\ Suffix(file, tail) = Suffix(template, tail)

\* the "N percent" figures of a description
PercentFigures(desc) ==
    LET ms == PercentValues(desc, "percent", 1) IN {ms[k].v : k \in DOMAIN ms}

\* the entries of a feed that mention "tropical" or "outlook"
OutlookEntries(items) ==
    {i \in DOMAIN items : Mentions(items[i].title \o items[i].desc, {"tropical", "outlook"})}

\* C28: a result of the feed comes from an entry that mentions "tropical" or
\* "outlook": the formation chance is the highest "N percent" figure of those
\* entries and the outlook is the description of the entry that holds it,
\* cut to 400 characters.
C28_FeedUsesOutlookEntries ==
    (tropical.set /\ origin = "rss") =>
        \E i \in OutlookEntries(answer.items) :
            \E n \in PercentFigures(answer.items[i].desc) :
                /\ \A j \in OutlookEntries(answer.items) :
                      \A o \in PercentFigures(answer.items[j].desc) : o <= n
                /\ tropical.formation_chance = Percent(n)
                /\ tropical.outlook = Substring0(answer.items[i].desc, DescLimit)
                /\ CharLen(tropical.outlook) <= DescLimit

\* the figures a page holds: the digits, read as a number, that stand
\* immediately before a "percent"
PageFigures(html) ==
    {parseInt(SubSeq(html, i, Len(html))).val :
        i \in {k \in DOMAIN html :
                 /\ IsDigit(html[k])
                 /\ k + RunLen(html, k) <= Len(html)
                 /\ Lower(html[k + RunLen(html, k)]) = "percent"}}

\* C29: after the answer of the scraped page, the resolver returns a result of
\* that page exactly when the highest figure of the page is above 0, and the
\* formation chance is then that highest figure; a page with no figure, or
\* with none but "0 percent", makes it request the next source.
C29_HighestFigure ==
    (requested # <<>> /\ LastRequested = "html" /\ answer.kind = "html") =>
        LET figs == PageFigures(answer.html)
            positive == \E n \in figs : n > 0
        IN  /\ positive =>
                  /\ tropical.set /\ origin = "html"
                  /\ \E n \in figs :
                        /\ \A o \in figs : o <= n
                        /\ tropical.formation_chance = Percent(n)
            /\ ~positive =>
                  /\ ~tropical.set
                  /\ pc = "tropical"
                  /\ src = "rss"

C29_Witness ==
    /\ pc = "done"
    /\ origin = "html"
    /\ PageFigures(answer.html) = {0, 20, 30, 60}
    /\ tropical.formation_chance = <<"6", "0", "%">>

\* C30: once the loop over the catalog is over, each of the 8 jurisdictions has
\* a condition that is not empty, whatever the alert requests answered and
\* whatever the season; the report rendered from them has one state line per
\* jurisdiction, 8 in all.
C30_EightStateLines ==
    /\ pc # "states" =>
          \A s \in States : s \in DOMAIN conditions /\ conditions[s] # <<>>
    /\ report # <<>> =>
          /\ Count(report, "<div class=\"state-report\">") = 8
          /\ \A s \in States :
                Cardinality({i \in 2..Len(report) :
                               report[i] = s /\ report[i - 1] = "<span class=\"state-name\">"}) = 1

C30_Witness ==
    /\ pc = "done"
    /\ month = 6
    /\ failed # {}
    /\ failed # States
    /\ Count(report, "<div class=\"state-report\">") = 8

====
